---- MODULE Spec2Model ----
(***************************************************************************)
(* Model of the command hardis:project:audit:callincallout                 *)
(* (src/src/commands/hardis/project/audit/callincallout.ts).               *)
(*                                                                         *)
(* CallInCallOut.run() globs the Apex files, reads each one, skips the     *)
(* files flagged by a content marker, runs every catcher on the others,    *)
(* formats the match records into rows, sorts them, shows them as a table, *)
(* hands them to the report writer and returns them.                       *)
(*                                                                         *)
(* Strings are TLA+ strings handled character by character (Len, SubSeq,   *)
(* \o), so that prefix tests, substring tests, splits, regular expression  *)
(* scans and whitespace normalisation are computed as the code computes    *)
(* them.                                                                   *)
(***************************************************************************)
EXTENDS Integers, Sequences, FiniteSets, TLC

(***************************************************************************)
(* Bounds of the model.                                                    *)
(***************************************************************************)
\* Largest number of files the glob returns.
MaxFiles == 2
\* Largest number of match records of an aggregation checked on its own.
MaxRecords == 3

(***************************************************************************)
(* JavaScript string primitives.                                           *)
(***************************************************************************)
CharAt(s, i) == SubSeq(s, i, i)

\* The characters of the sort keys (type, subType, fileName), in ascending
\* UTF-16 code unit order: the order of JavaScript's < on strings.
CodeUnits == "-./0123456789ABCDEFGHIJKLMNOPQRSTUVWXYZ_abcdefghijklmnopqrstuvwxyz"

CharCode(c) == CHOOSE i \in 1..Len(CodeUnits) : CharAt(CodeUnits, i) = c

UpperCase == "ABCDEFGHIJKLMNOPQRSTUVWXYZ"
LowerCase == "abcdefghijklmnopqrstuvwxyz"

\* The lower case of every upper case letter.
UpperToLower ==
  [c \in {CharAt(UpperCase, i) : i \in 1..Len(UpperCase)} |->
     CharAt(LowerCase, CHOOSE i \in 1..Len(UpperCase) : CharAt(UpperCase, i) = c)]

\* One character folded to lower case (the regular expressions' i flag).
LowerChar(c) == IF c \in DOMAIN UpperToLower THEN UpperToLower[c] ELSE c

RECURSIVE Lower(_)
Lower(s) == IF s = "" THEN "" ELSE LowerChar(CharAt(s, 1)) \o Lower(Tail(s))

\* Whether pat occurs in s at position i (1-based).
OccursAt(s, i, pat) ==
  /\ i >= 1
  /\ i + Len(pat) - 1 <= Len(s)
  /\ SubSeq(s, i, i + Len(pat) - 1) = pat

\* String.prototype.startsWith
StartsWith(s, pat) == OccursAt(s, 1, pat)

\* String.prototype.includes
Includes(s, pat) == \E i \in 1..(Len(s) + 1) : OccursAt(s, i, pat)

\* String.prototype.indexOf from position i, 0 when there is none (1-based).
RECURSIVE IndexFrom(_, _, _)
IndexFrom(s, pat, i) ==
  IF i + Len(pat) - 1 > Len(s) THEN 0
  ELSE IF OccursAt(s, i, pat) THEN i
  ELSE IndexFrom(s, pat, i + 1)

\* String.prototype.split with a non-empty separator.
RECURSIVE Split(_, _)
Split(s, sep) ==
  LET i == IndexFrom(s, sep, 1)
  IN IF i = 0 THEN <<s>>
     ELSE <<SubSeq(s, 1, i - 1)>> \o Split(SubSeq(s, i + Len(sep), Len(s)), sep)

\* Array.prototype.join
RECURSIVE Join(_, _)
Join(parts, sep) ==
  IF parts = <<>> THEN ""
  ELSE IF Len(parts) = 1 THEN parts[1]
  ELSE parts[1] \o sep \o Join(Tail(parts), sep)

\* JavaScript's < on strings: lexicographic on code units, a proper prefix first.
RECURSIVE StrLess(_, _)
StrLess(a, b) ==
  IF b = "" THEN FALSE
  ELSE IF a = "" THEN TRUE
  ELSE IF CharAt(a, 1) = CharAt(b, 1) THEN StrLess(Tail(a), Tail(b))
  ELSE CharCode(CharAt(a, 1)) < CharCode(CharAt(b, 1))

(***************************************************************************)
(* The catcher registry of run(). A primary regex is a literal with the    *)
(* flags g, i, m: it is kept in lower case and matched against the text    *)
(* folded to lower case. A detail regex is <pre>(.*?)<post> with the flags *)
(* g, i, m, s; tag says that [A-Za-z0-9_-]*: stands between pre and the    *)
(* capture group.                                                          *)
(***************************************************************************)
Catchers ==
  << [type |-> "INBOUND", subType |-> "SOAP", regex |-> "webservice static",
      detail |-> << [name |-> "webServiceName", pre |-> "webservice static ",
                     tag |-> FALSE, post |-> "{"] >>],
     [type |-> "INBOUND", subType |-> "REST", regex |-> "@restresource",
      detail |-> << [name |-> "restResource", pre |-> "@restresource(",
                     tag |-> FALSE, post |-> ")"] >>],
     [type |-> "OUTBOUND", subType |-> "HTTP", regex |-> "new httprequest",
      detail |-> << [name |-> "endPoint", pre |-> "setendpoint(",
                     tag |-> FALSE, post |-> ";"],
                    [name |-> "action", pre |-> "<soapenv:body><",
                     tag |-> TRUE, post |-> ">"] >>] >>

(***************************************************************************)
(* The matcher (catchMatches of common/utils): the number of matches of    *)
(* the primary regex and, when there is one, the captures of every detail  *)
(* regex over the whole text.                                              *)
(***************************************************************************)
\* Number of non-overlapping matches of the literal pat in low from i on,
\* scanning from the left as a global regex does.
RECURSIVE CountFrom(_, _, _)
CountFrom(low, pat, i) ==
  IF i + Len(pat) - 1 > Len(low) THEN 0
  ELSE IF OccursAt(low, i, pat) THEN 1 + CountFrom(low, pat, i + Len(pat))
  ELSE CountFrom(low, pat, i + 1)

countRegexMatches(regex, text) == CountFrom(Lower(text), regex, 1)

TagChars == "abcdefghijklmnopqrstuvwxyz0123456789_-"

\* First position from i on that holds no character of [A-Za-z0-9_-].
RECURSIVE SkipTag(_, _)
SkipTag(low, i) ==
  IF i <= Len(low) /\ Includes(TagChars, CharAt(low, i)) THEN SkipTag(low, i + 1)
  ELSE i

\* Where the capture group of extractor ex starts for a match starting at
\* i, 0 when the regex cannot match from i.
GroupStart(low, ex, i) ==
  IF ~OccursAt(low, i, ex.pre) THEN 0
  ELSE LET j == i + Len(ex.pre)
       IN IF ~ex.tag THEN j
          ELSE LET k == SkipTag(low, j)
               IN IF OccursAt(low, k, ":") THEN k + 1 ELSE 0

\* The first capture group of every match of ex from i on, in match order.
RECURSIVE GroupsFrom(_, _, _, _)
GroupsFrom(text, low, ex, i) ==
  IF i > Len(low) THEN <<>>
  ELSE LET j == GroupStart(low, ex, i)
           e == IF j = 0 THEN 0 ELSE IndexFrom(low, ex.post, j)
       IN IF e = 0 THEN GroupsFrom(text, low, ex, i + 1)
          ELSE <<SubSeq(text, j, e - 1)>>
               \o GroupsFrom(text, low, ex, e + Len(ex.post))

extractRegexGroups(ex, text) == GroupsFrom(text, Lower(text), ex, 1)

\* The detail object of a match record: one key per extractor that
\* captured something, in the extractors' declaration order.
RECURSIVE DetailCaptures(_, _)
DetailCaptures(extractors, text) ==
  IF extractors = <<>> THEN <<>>
  ELSE LET v == extractRegexGroups(Head(extractors), text)
       IN (IF v = <<>> THEN <<>>
           ELSE << [key |-> Head(extractors).name, values |-> v] >>)
          \o DetailCaptures(Tail(extractors), text)

\* The match records of one catcher on one file: none, or exactly one.
catchMatches(catcher, file, fileText) ==
  LET n == countRegexMatches(catcher.regex, fileText)
  IN IF n = 0 THEN <<>>
     ELSE << [type |-> catcher.type, subType |-> catcher.subType,
              fileName |-> file, matches |-> n,
              detail |-> DetailCaptures(catcher.detail, fileText)] >>

(***************************************************************************)
(* run(): the content pre-filter and the loop on the catchers.             *)
(***************************************************************************)
\* The pre-filter with the test marker forgotten.
SkipFileStartOnly(fileText) == StartsWith(fileText, "hidden")

\* if (fileText.startsWith('hidden') || fileText.includes('@isTest')) continue
SkipFile(fileText) == StartsWith(fileText, "hidden") \/ Includes(fileText, "@isTest")

\* The loop on the catchers leaving after the first catcher.
MatchCatchersFirstOnly(catchers, file, fileText) ==
  IF catchers = <<>> THEN <<>> ELSE catchMatches(Head(catchers), file, fileText)

\* for (const catcher of catchers) this.matchResults.push(...catchMatches(...))
RECURSIVE MatchCatchers(_, _, _)
MatchCatchers(catchers, file, fileText) ==
  IF catchers = <<>> THEN <<>>
  ELSE catchMatches(Head(catchers), file, fileText)
       \o MatchCatchers(Tail(catchers), file, fileText)

(***************************************************************************)
(* run(): the format of a match record as a row.                           *)
(***************************************************************************)
\* The characters \s matches among those of the model's texts.
WhiteSpace == {" ", "\t", "\n", "\r"}

\* .replace(/(\r\n|\n|\r)/gm, '')
RECURSIVE RemoveNewLines(_)
RemoveNewLines(t) ==
  IF t = "" THEN ""
  ELSE IF CharAt(t, 1) \in {"\n", "\r"} THEN RemoveNewLines(Tail(t))
  ELSE CharAt(t, 1) \o RemoveNewLines(Tail(t))

RECURSIVE DropWhiteSpace(_)
DropWhiteSpace(t) ==
  IF t # "" /\ CharAt(t, 1) \in WhiteSpace THEN DropWhiteSpace(Tail(t)) ELSE t

\* .replace(/\s+/g, ' ')
RECURSIVE CollapseWhiteSpace(_)
CollapseWhiteSpace(t) ==
  IF t = "" THEN ""
  ELSE IF CharAt(t, 1) \in WhiteSpace THEN " " \o CollapseWhiteSpace(DropWhiteSpace(t))
  ELSE CharAt(t, 1) \o CollapseWhiteSpace(Tail(t))

\* The normalisation with the removal of the line breaks left out.
NormalizeTextCollapseOnly(extractedText) == CollapseWhiteSpace(extractedText)

NormalizeText(extractedText) == CollapseWhiteSpace(RemoveNewLines(extractedText))

\* item.detail[key].map(normalize).join(' | ')
DetailValues(values) ==
  Join([j \in 1..Len(values) |-> NormalizeText(values[j])], " | ")

\* Object.keys(item.detail).map(key => key + ': ' + ...).join(' || ') || ''
DetailString(detail) ==
  Join([i \in 1..Len(detail) |->
          detail[i].key \o ": " \o DetailValues(detail[i].values)], " || ")

\* The name space taken before the last separator instead of the first.
NameSpaceLast(fileName) ==
  LET parts == Split(fileName, "__")
  IN IF Len(parts) > 1 THEN Join(SubSeq(parts, 1, Len(parts) - 1), "__") ELSE "Custom"

\* item.fileName.includes('__') ? item.fileName.split('__')[0] : 'Custom'
NameSpace(fileName) ==
  IF Includes(fileName, "__") THEN Split(fileName, "__")[1] ELSE "Custom"

FormatRow(item) ==
  [type |-> item.type, subType |-> item.subType, fileName |-> item.fileName,
   nameSpace |-> NameSpace(item.fileName), matches |-> item.matches,
   detail |-> DetailString(item.detail)]

FormatResult(items) == [i \in 1..Len(items) |-> FormatRow(items[i])]

(***************************************************************************)
(* run(): sortArray(result, {by, order}), the sort-array comparator over   *)
(* a stable Array.prototype.sort.                                          *)
(***************************************************************************)
SortBy == <<"type", "subType", "fileName", "matches">>
\* Every key ascending.
SortOrderAllAsc == <<"asc", "asc", "asc", "asc">>

SortOrder == <<"asc", "asc", "asc", "desc">>

\* x < y on the values of one key: numbers for matches, strings otherwise.
ValueLess(key, x, y) == IF key = "matches" THEN x < y ELSE StrLess(x, y)

\* compareFunc(xIn, yIn, byIndex): negative, zero or positive.
RECURSIVE CompareBy(_, _, _)
CompareBy(xIn, yIn, byIndex) ==
  LET key == SortBy[byIndex]
      x == xIn[key]
      y == yIn[key]
      asc == IF x = y THEN 0
             ELSE IF ValueLess(key, x, y) THEN -1
             ELSE IF ValueLess(key, y, x) THEN 1 ELSE 0
      result == IF SortOrder[byIndex] = "desc" THEN -asc ELSE asc
  IN IF result = 0 /\ byIndex < Len(SortBy)
     THEN CompareBy(xIn, yIn, byIndex + 1)
     ELSE result

Compare(xIn, yIn) == CompareBy(xIn, yIn, 1)

\* x put after the last row of a sorted sequence that does not compare
\* above it: equal rows keep their order.
RECURSIVE InsertRow(_, _)
InsertRow(sorted, x) ==
  IF sorted = <<>> THEN <<x>>
  ELSE IF Compare(sorted[Len(sorted)], x) <= 0 THEN Append(sorted, x)
  ELSE Append(InsertRow(SubSeq(sorted, 1, Len(sorted) - 1), x), sorted[Len(sorted)])

\* The sort left out.
sortArrayNone(rows) == rows

\* The stable sort of rows under Compare.
RECURSIVE sortArray(_)
sortArray(rows) ==
  IF rows = <<>> THEN <<>>
  ELSE InsertRow(sortArray(SubSeq(rows, 1, Len(rows) - 1)), rows[Len(rows)])

(***************************************************************************)
(* run(): the table and the report.                                        *)
(***************************************************************************)
\* delete item.detail
DeleteDetail(item) == [k \in (DOMAIN item) \ {"detail"} |-> item[k]]

\* JSON.parse(JSON.stringify(rows)): new objects that share nothing with
\* rows, with the same keys; the values are strings and integers, which the
\* round trip keeps.
JsonCopy(rows) == [i \in 1..Len(rows) |-> [k \in DOMAIN rows[i] |-> rows[i][k]]]

\* items.map(item => { delete item.detail; return item })
DeleteDetails(items) == [i \in 1..Len(items) |-> DeleteDetail(items[i])]

Columns ==
  << [key |-> "type", header |-> "IN/OUT"],
     [key |-> "subType", header |-> "Protocol"],
     [key |-> "fileName", header |-> "Apex"],
     [key |-> "nameSpace", header |-> "Namespace"],
     [key |-> "matches", header |-> "Number"],
     [key |-> "detail", header |-> "Detail"] >>

\* What generateReports resolves to: the generated artifacts.
ReportFiles ==
  << [path |-> "hardis-report/callincallout.csv", format |-> "csv"],
     [path |-> "hardis-report/callincallout.xlsx", format |-> "xlsx"] >>

OutputString == "Processed callIns and callOuts audit"

(***************************************************************************)
(* The inputs: the project tree the glob and readFile see.                 *)
(***************************************************************************)
Paths == {"MyClass.cls", "ns__MyClass.cls", "a__b__Zed.trigger"}

\* Two SOAP entry points, in two letter cases.
SoapText == "webservice static void a(){}\nWebService Static  b\t{"

\* The SOAP action stands before the endpoint; the endpoint spans lines.
HttpText == "<soapenv:Body><ns:Get>new HttpRequest();r.setEndpoint('u'  +\r\n 'v'\n);"

\* Starts with the exclusion marker.
HiddenText == "hidden webservice static x{@RestResource(a)new HttpRequest"

\* Holds the test marker.
TestText == "class T{@isTest webservice static y{@RestResource(b)new HttpRequest"

\* No call in, no call out.
PlainText == "public class A{}"

\* The markers out of place: a REST resource and two HTTP requests.
MixedText == "x hidden @IsTest @RestResource(u)new HTTPREQUEST new httprequest"

Texts == {SoapText, HttpText, HiddenText, TestText, PlainText, MixedText}

\* The sequences of at most n files with distinct paths.
RECURSIVE Trees(_)
Trees(n) ==
  IF n = 0 THEN {<<>>}
  ELSE LET shorter == Trees(n - 1)
       IN shorter \cup
          { Append(t, [path |-> p, text |-> x]) :
              t \in { u \in shorter : Len(u) = n - 1 },
              p \in Paths, x \in Texts }

DistinctPaths(t) == \A i, j \in 1..Len(t) : t[i].path = t[j].path => i = j

(***************************************************************************)
(* The state of one run().                                                 *)
(***************************************************************************)
VARIABLES
  tree,          \* the files under the project root, in the glob's order
  pc,            \* where run() stands
  apexFiles,     \* the paths the glob returned
  next,          \* index in apexFiles of the file the loop reads next
  matchResults,  \* this.matchResults
  result,        \* the array result
  resultSorted,  \* what the name resultSorted refers to
  console,       \* the tables console.table has shown
  reports,       \* the arguments of the calls of generateReports
  reportFiles,   \* what generateReports resolved to
  payload,       \* what run() resolved to
  error          \* the call whose rejection run() rejected with

vars == <<tree, pc, apexFiles, next, matchResults, result, resultSorted,
          console, reports, reportFiles, payload, error>>

None == "none"

\* No call has rejected.
NoError == [call |-> None, file |-> None]

InitRun ==
  /\ pc = "start"
  /\ apexFiles = <<>>
  /\ next = 1
  /\ matchResults = <<>>
  /\ result = <<>>
  /\ resultSorted = <<>>
  /\ console = <<>>
  /\ reports = <<>>
  /\ reportFiles = <<>>
  /\ payload = None
  /\ error = NoError

Init ==
  /\ tree \in { t \in Trees(MaxFiles) : DistinctPaths(t) }
  /\ InitRun

\* Where the loop on apexFiles goes once i - 1 files are done.
LoopPc(files, i) == IF i > Len(files) THEN "format" ELSE "loop"

\* const apexFiles = await glob(pattern, ...); this.matchResults = []
Glob ==
  /\ pc = "start"
  /\ apexFiles' = [i \in 1..Len(tree) |-> tree[i].path]
  /\ matchResults' = <<>>
  /\ next' = 1
  /\ pc' = LoopPc(apexFiles', 1)
  /\ UNCHANGED <<tree, result, resultSorted, console, reports, reportFiles,
                 payload, error>>

\* await fs.readFile(file, 'utf8') rejects: nothing catches it, run() rejects.
ReadFileFails ==
  /\ pc = "loop"
  /\ pc' = "rejected"
  /\ error' = [call |-> "readFile", file |-> apexFiles[next]]
  /\ UNCHANGED <<tree, apexFiles, next, matchResults, result, resultSorted,
                 console, reports, reportFiles, payload>>

\* One turn of the loop on a file whose text was read.
LoopFile ==
  /\ pc = "loop"
  /\ LET file == apexFiles[next]
         fileText == tree[next].text
     IN matchResults' =
          IF SkipFile(fileText) THEN matchResults
          ELSE matchResults \o MatchCatchers(Catchers, file, fileText)
  /\ next' = next + 1
  /\ pc' = LoopPc(apexFiles, next')
  /\ UNCHANGED <<tree, apexFiles, result, resultSorted, console, reports,
                 reportFiles, payload, error>>

\* const result = this.matchResults.map(...)
Format ==
  /\ pc = "format"
  /\ result' = FormatResult(matchResults)
  /\ pc' = "sort"
  /\ UNCHANGED <<tree, apexFiles, next, matchResults, resultSorted, console,
                 reports, reportFiles, payload, error>>

\* const resultSorted = sortArray(result, ...): sortArray sorts the array it
\* is given and returns it, so result and resultSorted are one array.
Sort ==
  /\ pc = "sort"
  /\ resultSorted' = sortArray(result)
  /\ result' = resultSorted'
  /\ pc' = "table"
  /\ UNCHANGED <<tree, apexFiles, next, matchResults, console, reports,
                 reportFiles, payload, error>>

\* The table built on the sorted rows themselves, without the JSON copy.
DisplayTableNoCopy ==
  /\ pc = "table"
  /\ resultSorted' = DeleteDetails(resultSorted)
  /\ result' = resultSorted'
  /\ console' = Append(console, resultSorted')
  /\ pc' = "report"
  /\ UNCHANGED <<tree, apexFiles, next, matchResults, reports, reportFiles,
                 payload, error>>

\* const resultsLight = JSON.parse(JSON.stringify(resultSorted));
\* console.table(resultsLight.map(delete detail))
DisplayTable ==
  /\ pc = "table"
  /\ console' = Append(console, DeleteDetails(JsonCopy(resultSorted)))
  /\ pc' = "report"
  /\ UNCHANGED <<tree, apexFiles, next, matchResults, result, resultSorted,
                 reports, reportFiles, payload, error>>

\* The report written before the table is shown, the table left out.
GenerateReportsNoTable ==
  /\ pc \in {"table", "report"}
  /\ reports' = Append(reports, [rows |-> resultSorted, columns |-> Columns])
  /\ \/ /\ reportFiles' = ReportFiles
        /\ pc' = "return"
        /\ UNCHANGED error
     \/ /\ pc' = "rejected"
        /\ error' = [call |-> "generateReports", file |-> None]
        /\ UNCHANGED reportFiles
  /\ UNCHANGED <<tree, apexFiles, next, matchResults, result, resultSorted,
                 console, payload>>

\* const reportFiles = await generateReports(resultSorted, columns, this)
GenerateReports ==
  /\ pc = "report"
  /\ reports' = Append(reports, [rows |-> resultSorted, columns |-> Columns])
  /\ \/ /\ reportFiles' = ReportFiles
        /\ pc' = "return"
        /\ UNCHANGED error
     \/ /\ pc' = "rejected"
        /\ error' = [call |-> "generateReports", file |-> None]
        /\ UNCHANGED reportFiles
  /\ UNCHANGED <<tree, apexFiles, next, matchResults, result, resultSorted,
                 console, payload>>

\* return { outputString, result: resultSorted, reportFiles }
Return ==
  /\ pc = "return"
  /\ payload' = [outputString |-> OutputString, result |-> resultSorted,
                 reportFiles |-> reportFiles]
  /\ pc' = "returned"
  /\ UNCHANGED <<tree, apexFiles, next, matchResults, result, resultSorted,
                 console, reports, reportFiles, error>>

Next ==
  \/ Glob
  \/ ReadFileFails
  \/ LoopFile
  \/ Format
  \/ Sort
  \/ DisplayTable
  \/ GenerateReports
  \/ Return

Spec == Init /\ [][Next]_vars

(***************************************************************************)
(* The format and the sort on their own: run() from the end of its loop,   *)
(* over match records drawn from the records the matcher gives and from    *)
(* records that tie on the sort keys or hold empty captures.               *)
(***************************************************************************)
RecordPool ==
  { MatchCatchers(Catchers, "MyClass.cls", SoapText)[1],
    MatchCatchers(Catchers, "a__b__Zed.trigger", HttpText)[1],
    MatchCatchers(Catchers, "MyClass.cls", MixedText)[1],
    MatchCatchers(Catchers, "MyClass.cls", MixedText)[2],
    [type |-> "INBOUND", subType |-> "SOAP", fileName |-> "MyClass.cls",
     matches |-> 2,
     detail |-> << [key |-> "webServiceName", values |-> <<"a\nb", "">>] >>],
    [type |-> "INBOUND", subType |-> "SOAP", fileName |-> "MyClass.cls",
     matches |-> 3, detail |-> <<>>],
    [type |-> "OUTBOUND", subType |-> "HTTP", fileName |-> "a__b__Zed.trigger",
     matches |-> 3,
     detail |-> << [key |-> "endPoint", values |-> <<>>],
                   [key |-> "action", values |-> <<" \t x", "y\r\n">>] >>] }

\* The sequences of at most n records of the pool.
RECURSIVE RecordSeqs(_)
RecordSeqs(n) ==
  IF n = 0 THEN {<<>>}
  ELSE LET shorter == RecordSeqs(n - 1)
       IN shorter \cup
          { Append(t, r) : t \in { u \in shorter : Len(u) = n - 1 }, r \in RecordPool }

AggInit ==
  /\ tree = <<>>
  /\ pc = "format"
  /\ apexFiles = <<>>
  /\ next = 1
  /\ matchResults \in RecordSeqs(MaxRecords)
  /\ result = <<>>
  /\ resultSorted = <<>>
  /\ console = <<>>
  /\ reports = <<>>
  /\ reportFiles = <<>>
  /\ payload = None
  /\ error = NoError

AggNext ==
  \/ Format
  \/ Sort
  \/ DisplayTable
  \/ GenerateReports
  \/ Return

AggSpec == AggInit /\ [][AggNext]_vars

(***************************************************************************)
(* Properties of run().                                                    *)
(***************************************************************************)
\* The positions of s a set of rows or records holds for one file and catcher.
RowsOf(s, file, catcher) ==
  { k \in 1..Len(s) : /\ s[k].fileName = file
                      /\ s[k].type = catcher.type
                      /\ s[k].subType = catcher.subType }

\* The positions of text where the primary regex of catcher matches.
Occurrences(catcher, text) ==
  LET low == Lower(text)
  IN { p \in 1..Len(text) : OccursAt(low, p, catcher.regex) }

\* Occurrences that share no character: each one is a match of the scan.
NonOverlapping(catcher, text) ==
  LET occ == Occurrences(catcher, text)
  IN \A p, q \in occ : p < q => p + Len(catcher.regex) <= q

\* C1: in the result of run(), a file that the pre-filter keeps has a row
\* for a catcher exactly when the catcher's primary pattern matches in its
\* text; the row is then the only one, and its matches field is the number
\* of non-overlapping matches; no row has matches = 0.
C1_RowPerMatchingCatcher ==
  pc = "returned" =>
    /\ \A i \in 1..Len(tree) : \A c \in 1..Len(Catchers) :
         LET text == tree[i].text
             rows == RowsOf(payload.result, tree[i].path, Catchers[c])
             n == Cardinality(Occurrences(Catchers[c], text))
         IN ~SkipFile(text) =>
              /\ NonOverlapping(Catchers[c], text)
              /\ (rows # {}) <=> (n > 0)
              /\ n > 0 => /\ Cardinality(rows) = 1
                          /\ \A k \in rows : payload.result[k].matches = n
    /\ \A k \in 1..Len(payload.result) : payload.result[k].matches > 0

\* A run returned rows for a kept file: one catcher matched twice, another
\* catcher did not match.
C1_Witness ==
  /\ pc = "returned"
  /\ \E i \in 1..Len(tree) :
       /\ ~SkipFile(tree[i].text)
       /\ \E k \in 1..Len(payload.result) :
            /\ payload.result[k].fileName = tree[i].path
            /\ payload.result[k].matches = 2
       /\ \E c \in 1..Len(Catchers) :
            /\ Occurrences(Catchers[c], tree[i].text) = {}
            /\ RowsOf(payload.result, tree[i].path, Catchers[c]) = {}

\* Whether text starts with the exclusion marker or holds the test marker.
Flagged(text) ==
  \/ Len(text) >= 6 /\ SubSeq(text, 1, 6) = "hidden"
  \/ \E p \in 1..Len(text) : p + 6 <= Len(text) /\ SubSeq(text, p, p + 6) = "@isTest"

\* The file names of the rows or records of s.
FileNames(s) == { s[k].fileName : k \in 1..Len(s) }

\* C3: a file whose text starts with the exclusion marker or holds the test
\* marker has no record and no row, at any point of the run and in the
\* result, whatever its text matches.
C3_FlaggedFileHasNoRow ==
  \A i \in 1..Len(tree) :
    Flagged(tree[i].text) =>
      /\ tree[i].path \notin FileNames(matchResults)
      /\ tree[i].path \notin FileNames(result)
      /\ tree[i].path \notin FileNames(resultSorted)
      /\ pc = "returned" => tree[i].path \notin FileNames(payload.result)

\* A run returned after the loop went over a flagged file in which every
\* catcher's primary pattern matches, next to a file that gave rows.
C3_Witness ==
  /\ pc = "returned"
  /\ payload.result # <<>>
  /\ \E i \in 1..Len(tree) :
       /\ Flagged(tree[i].text)
       /\ \A c \in 1..Len(Catchers) : Occurrences(Catchers[c], tree[i].text) # {}

\* The sequences that hold the elements of t in another order.
Orders(t) ==
  { [i \in 1..Len(t) |-> t[f[i]]] :
      f \in { g \in [1..Len(t) -> 1..Len(t)] :
                \A i, j \in 1..Len(t) : g[i] = g[j] => i = j } }

\* The match records of the loop of run() over the files of t, in t's order.
RECURSIVE ScanAll(_)
ScanAll(t) ==
  IF t = <<>> THEN <<>>
  ELSE (IF SkipFile(Head(t).text) THEN <<>>
        ELSE MatchCatchers(Catchers, Head(t).path, Head(t).text))
       \o ScanAll(Tail(t))

\* The rows run() returns when the glob gives the files in t's order.
RunResult(t) == sortArray(FormatResult(ScanAll(t)))

\* C9: the rows run() returns are those it returns for every other order
\* of the same files.
C9_OrderIndependent ==
  pc = "returned" => \A t \in Orders(tree) : RunResult(t) = payload.result

\* A run returned rows of two files whose records were collected in the
\* reverse of their sorted order.
C9_Witness ==
  /\ pc = "returned"
  /\ Len(matchResults) >= 2
  /\ \E i, j \in 1..Len(matchResults) :
       /\ i < j
       /\ matchResults[i].fileName # matchResults[j].fileName
       /\ Compare(FormatRow(matchResults[j]), FormatRow(matchResults[i])) < 0

\* The positions of fileName where the separator __ starts.
Separators(fileName) ==
  { p \in 1..Len(fileName) : p < Len(fileName) /\ SubSeq(fileName, p, p + 1) = "__" }

Min(S) == CHOOSE m \in S : \A n \in S : m <= n

\* Every row of s has the name space of its file name.
NameSpacesOf(s) ==
  \A k \in 1..Len(s) :
    LET seps == Separators(s[k].fileName)
    IN IF seps = {} THEN s[k].nameSpace = "Custom"
       ELSE s[k].nameSpace = SubSeq(s[k].fileName, 1, Min(seps) - 1)

\* C7: the nameSpace of every row is the part of its fileName before the
\* first __ when there is one, and Custom otherwise.
C7_NameSpace ==
  /\ pc \in {"sort", "table", "report", "return", "returned"} => NameSpacesOf(result)
  /\ pc \in {"table", "report", "return", "returned"} => NameSpacesOf(resultSorted)
  /\ pc = "returned" => NameSpacesOf(payload.result)

\* A run returned a row of a file with no separator and a row of a file
\* with two separators.
C7_Witness ==
  /\ pc = "returned"
  /\ \E k \in 1..Len(payload.result) :
       /\ Separators(payload.result[k].fileName) = {}
       /\ payload.result[k].nameSpace = "Custom"
  /\ \E k \in 1..Len(payload.result) :
       /\ Cardinality(Separators(payload.result[k].fileName)) = 2
       /\ payload.result[k].nameSpace = "a"

\* The keys of a full row, in the order of the column specification.
RowKeys == <<"type", "subType", "fileName", "nameSpace", "matches", "detail">>

\* C8: once the table is shown, the sorted rows are still the sorted rows
\* of the match records, each with its detail; the table holds every row
\* in the same order with all fields except detail; the report writer is
\* given the full rows and the ordered column specification, and the
\* payload holds the same full rows.
C8_TableLeavesRows ==
  LET sorted == sortArray(FormatResult(matchResults))
  IN /\ Len(console) = 1 =>
          /\ resultSorted = sorted
          /\ \A i \in 1..Len(resultSorted) :
               DOMAIN resultSorted[i] = { RowKeys[k] : k \in 1..Len(RowKeys) }
          /\ Len(console[1]) = Len(sorted)
          /\ \A i \in 1..Len(sorted) :
               /\ DOMAIN console[1][i] = { RowKeys[k] : k \in 1..Len(RowKeys) - 1 }
               /\ \A key \in DOMAIN console[1][i] : console[1][i][key] = sorted[i][key]
     /\ Len(reports) = 1 =>
          /\ reports[1].rows = sorted
          /\ [k \in 1..Len(reports[1].columns) |-> reports[1].columns[k].key] = RowKeys
     /\ pc = "returned" => payload.result = sorted

\* A run returned after the table showed two rows or more, one of them
\* with a detail.
C8_Witness ==
  /\ pc = "returned"
  /\ Len(console) = 1
  /\ Len(console[1]) >= 2
  /\ \E i \in 1..Len(payload.result) : payload.result[i].detail # ""

Terminal == {"returned", "rejected"}

\* The steps of run() in their order: the scan and match loop, the format,
\* the sort, the table and the report, the return.
PipelineOrder ==
  { <<"start", "loop">>, <<"start", "format">>, <<"loop", "loop">>,
    <<"loop", "format">>, <<"loop", "rejected">>, <<"format", "sort">>,
    <<"sort", "table">>, <<"table", "report">>, <<"report", "return">>,
    <<"report", "rejected">>, <<"return", "returned">> }

StepInOrder == <<pc, pc'>> \in PipelineOrder

\* Whether the table has been shown, and the report writer called, by the
\* point where run() stands.
TableDue == pc \in {"report", "return", "returned"} \/ error.call = "generateReports"
ReportDue == pc \in {"return", "returned"} \/ error.call = "generateReports"

\* Whether the loop on the files has come to its end.
ScanDone ==
  \/ pc \in {"format", "sort", "table", "report", "return", "returned"}
  \/ error.call = "generateReports"

\* Whether run() has a step to take: the guard of one of its steps holds.
StepEnabled ==
  \/ pc \in {"start", "format", "sort", "table", "report", "return"}
  \/ pc = "loop" /\ next \in 1..Len(apexFiles) /\ Len(tree) = Len(apexFiles)

PipelineState ==
  LET sorted == sortArray(FormatResult(matchResults))
  IN /\ Len(console) = (IF TableDue THEN 1 ELSE 0)
     /\ Len(reports) = (IF ReportDue THEN 1 ELSE 0)
     /\ TableDue => console[1] = DeleteDetails(sorted)
     /\ ReportDue => reports[1].rows = sorted
     /\ pc = "rejected" => error.call \in {"readFile", "generateReports"}
     /\ pc = "returned" => error = NoError
     /\ (matchResults = <<>> /\ ScanDone) =>
          /\ result = <<>>
          /\ resultSorted = <<>>
          /\ TableDue => console[1] = <<>>
          /\ ReportDue => reports[1].rows = <<>>
          /\ pc = "returned" => payload.result = <<>>
     /\ pc \notin Terminal => StepEnabled

\* C10: run() goes once through the scan and match loop, the format, the
\* sort, the table and the report, in that order and never back; the table
\* is shown once and the report writer is called once, both with the
\* sorted rows; with no match the rows are empty, the table is empty, the
\* report writer is still called, and nothing in run() itself fails: it
\* returns unless the report writer rejects.
C10_SinglePass ==
  /\ [][StepInOrder]_vars
  /\ []PipelineState

\* A run returned with no row after a scan of files none of which matched:
\* the table was shown empty and the report writer was called.
C10_Witness ==
  /\ pc = "returned"
  /\ Len(tree) >= 1
  /\ payload.result = <<>>
  /\ console = << <<>> >>
  /\ Len(reports) = 1

\* The files of the tree other than the one whose read failed.
ReadableFiles ==
  LET Readable(f) == f.path # error.file
  IN SelectSeq(tree, Readable)

\* C4: a failed read of one file does not abort the scan: run() still
\* returns, with the rows of all the other files.
C4_ReadFailureIsIsolated ==
  error.call = "readFile" =>
    /\ pc # "rejected"
    /\ pc = "returned" => payload.result = RunResult(ReadableFiles)

\* C5: a failure of the report writer does not abort run(): it still
\* returns a payload with the sorted rows.
C5_ExportFailureIsNotFatal ==
  error.call = "generateReports" =>
    /\ pc # "rejected"
    /\ pc = "returned" => payload.result = sortArray(FormatResult(matchResults))

(***************************************************************************)
(* Properties of the format and of the sort.                               *)
(***************************************************************************)
\* Whether row x may stand right before row y: not greater on type, then
\* subType, then fileName, and with equal three, matches not smaller.
InOrder(x, y) ==
  \/ StrLess(x.type, y.type)
  \/ /\ x.type = y.type
     /\ \/ StrLess(x.subType, y.subType)
        \/ /\ x.subType = y.subType
           /\ \/ StrLess(x.fileName, y.fileName)
              \/ /\ x.fileName = y.fileName
                 /\ x.matches >= y.matches

\* Whether two rows tie on the four sort keys.
Tied(x, y) ==
  /\ x.type = y.type
  /\ x.subType = y.subType
  /\ x.fileName = y.fileName
  /\ x.matches = y.matches

\* The rows of s that tie with x, in their order in s.
TiedWith(s, x) ==
  LET Same(y) == Tied(x, y)
  IN SelectSeq(s, Same)

\* C2: the sorted rows are the formatted rows in another order: each pair
\* of adjacent rows is in the order type, subType, fileName ascending, then
\* matches descending, and the rows that tie on the four keys stand as they
\* stood before the sort.
C2_SortedRows ==
  pc \in {"table", "report", "return", "returned"} =>
    LET rows == FormatResult(matchResults)
        sorted == IF pc = "returned" THEN payload.result ELSE resultSorted
    IN /\ Len(sorted) = Len(rows)
       /\ \A i \in 1..Len(sorted) - 1 : InOrder(sorted[i], sorted[i + 1])
       /\ \A i \in 1..Len(rows) : TiedWith(sorted, rows[i]) = TiedWith(rows, rows[i])
       /\ Len(reports) = 1 => reports[1].rows = sorted

\* A sort moved rows: two rows of one file and catcher with different
\* matches, and two rows tied on the four keys with different details.
C2_Witness ==
  /\ pc = "returned"
  /\ payload.result # FormatResult(matchResults)
  /\ \E i, j \in 1..Len(payload.result) :
       /\ i < j
       /\ Tied(payload.result[i], payload.result[j])
       /\ payload.result[i].detail # payload.result[j].detail
  /\ \E i, j \in 1..Len(payload.result) :
       /\ payload.result[i].fileName = payload.result[j].fileName
       /\ payload.result[i].subType = payload.result[j].subType
       /\ payload.result[i].matches > payload.result[j].matches

\* The normalisation in one pass: line breaks dropped, a space put for each
\* run of the other white space.
RECURSIVE OnePass(_, _)
OnePass(raw, pending) ==
  IF raw = "" THEN (IF pending THEN " " ELSE "")
  ELSE LET c == CharAt(raw, 1)
       IN IF c \in {"\n", "\r"} THEN OnePass(Tail(raw), pending)
          ELSE IF c \in {" ", "\t"} THEN OnePass(Tail(raw), TRUE)
          ELSE (IF pending THEN " " ELSE "") \o c \o OnePass(Tail(raw), FALSE)

\* Whether norm is raw normalised: no line break, no two white space
\* characters in a row, and the text of the one pass.
IsNormalized(raw, norm) ==
  /\ \A p \in 1..Len(norm) : CharAt(norm, p) \notin {"\n", "\r", "\t"}
  /\ \A p \in 1..Len(norm) - 1 : ~(CharAt(norm, p) = " " /\ CharAt(norm, p + 1) = " ")
  /\ norm = OnePass(raw, FALSE)

\* The names of the detail extractors of the catcher of record item that
\* are keys of its detail, in the order of their declaration.
DeclaredKeys(item) ==
  LET c == CHOOSE c \in 1..Len(Catchers) :
             Catchers[c].type = item.type /\ Catchers[c].subType = item.subType
      names == [e \in 1..Len(Catchers[c].detail) |-> Catchers[c].detail[e].name]
      IsKey(n) == \E d \in 1..Len(item.detail) : item.detail[d].key = n
  IN SelectSeq(names, IsKey)

\* Whether str is the detail string of record item.
IsDetailOf(item, str) ==
  IF item.detail = <<>> THEN str = ""
  ELSE LET groups == Split(str, " || ")
           keys == DeclaredKeys(item)
       IN /\ Len(groups) = Len(item.detail)
          /\ Len(keys) = Len(groups)
          /\ \A g \in 1..Len(groups) :
               LET d == item.detail[g]
                   head == keys[g] \o ": "
                   rest == SubSeq(groups[g], Len(head) + 1, Len(groups[g]))
               IN /\ d.key = keys[g]
                  /\ StartsWith(groups[g], head)
                  /\ IF d.values = <<>> THEN rest = ""
                     ELSE LET vals == Split(rest, " | ")
                          IN /\ Len(vals) = Len(d.values)
                             /\ \A v \in 1..Len(vals) : IsNormalized(d.values[v], vals[v])

\* C6: the detail of a row is built from the detail captures of its record
\* alone: one group name: v1 | v2 | ... per detail name, in the order the
\* catcher declares its extractors, each value normalised (no line break,
\* no two white space characters in a row) and in match order, the groups
\* joined by ' || ', and the empty string when the record has no detail.
C6_DetailString ==
  pc = "sort" =>
    /\ Len(result) = Len(matchResults)
    /\ \A i \in 1..Len(result) : IsDetailOf(matchResults[i], result[i].detail)

\* Rows were formatted from a record with two detail names, from a record
\* with a capture that holds a line break, and from a record with no detail.
C6_Witness ==
  /\ pc = "sort"
  /\ \E i \in 1..Len(matchResults) :
       /\ Len(matchResults[i].detail) = 2
       /\ Len(matchResults[i].detail[1].values) >= 1
       /\ Includes(result[i].detail, " || ")
  /\ \E i \in 1..Len(matchResults) :
       /\ Len(matchResults[i].detail) = 1
       /\ \E v \in 1..Len(matchResults[i].detail[1].values) :
            Includes(matchResults[i].detail[1].values[v], "\n")
       /\ Includes(result[i].detail, " | ")
  /\ \E i \in 1..Len(matchResults) :
       /\ matchResults[i].detail = <<>>
       /\ result[i].detail = ""

====
